---- MODULE Spec2Model ----
(***************************************************************************)
(* Model of pdf_internals/src/lib.rs: the PDF header-version detector.     *)
(*                                                                         *)
(* PDFReader::from_file_path opens a file, wraps it in a BufReader and     *)
(* hands it to PDFReader::from_bufreader, which reads once into a          *)
(* zero-initialised 10-byte window and matches the window against the      *)
(* eighteen accepted signatures.  Bytes are the integers 0..255.           *)
(***************************************************************************)
EXTENDS Integers, Sequences, FiniteSets, TLC

VARIABLES
    src,        \* the bytes the byte source carries
    openable,   \* whether File::open on the path succeeds
    pc,         \* position of the construction: start, read, match, done, abort
    buf,        \* the 10-byte window `buf` of from_bufreader
    nread,      \* what the one read call returned (Ok(n)); -1 before, -2 on Err
    pos,        \* read position of the buffered source, in bytes from its start
    reads,      \* number of read requests issued on the buffered source
    reqmax,     \* largest number of bytes any read request asked for
    seeks,      \* number of seek requests issued on the buffered source
    matches,    \* number of times the window was matched against the signatures
    result,     \* the Result the constructor returned
    attempt,    \* which construction this is (1 = first)
    prev,       \* the Result of the previous construction from the same bytes
    cmp         \* operands and results of PDFVersion comparisons

vars == <<src, openable, pc, buf, nread, pos, reads, reqmax, seeks, matches, result, attempt, prev, cmp>>

(***************************************************************************)
(* Bounds of the model.                                                    *)
(***************************************************************************)
\* longest byte source explored (one byte more than the window)
MaxSrcLen == 11
\* number of constructions from sources carrying the same bytes
MaxConstructions == 2

(***************************************************************************)
(* PDFVersion: the enum, its derived ordering and its Display.             *)
(***************************************************************************)
\* faulty variant: PDF2_0 declared before PDF1_7
PDFVersionDecl_swapped ==
    <<"PDF1_0", "PDF1_1", "PDF1_2", "PDF1_3", "PDF1_4",
      "PDF1_5", "PDF1_6", "PDF2_0", "PDF1_7">>

\* the variants in declaration order
PDFVersionDecl ==
    <<"PDF1_0", "PDF1_1", "PDF1_2", "PDF1_3", "PDF1_4",
      "PDF1_5", "PDF1_6", "PDF1_7", "PDF2_0">>

PDFVersion == { PDFVersionDecl[i] : i \in DOMAIN PDFVersionDecl }

\* the discriminant of a variant: its index in the declaration
Discriminant(v) == CHOOSE i \in DOMAIN PDFVersionDecl : PDFVersionDecl[i] = v

\* derived PartialOrd / Ord: variants compare by discriminant
Lt(a, b) == Discriminant(a) < Discriminant(b)

\* Display for PDFVersion: the bytes of the string written
Display(v) ==
    CASE v = "PDF1_0" -> <<49, 46, 48>>
      [] v = "PDF1_1" -> <<49, 46, 49>>
      [] v = "PDF1_2" -> <<49, 46, 50>>
      [] v = "PDF1_3" -> <<49, 46, 51>>
      [] v = "PDF1_4" -> <<49, 46, 52>>
      [] v = "PDF1_5" -> <<49, 46, 53>>
      [] v = "PDF1_6" -> <<49, 46, 54>>
      [] v = "PDF1_7" -> <<49, 46, 55>>
      [] v = "PDF2_0" -> <<50, 46, 48>>

(***************************************************************************)
(* PDFInitializationError and the Result of a construction.                *)
(***************************************************************************)
NoResult == [kind |-> "None"]

\* From<io::Error> for PDFInitializationError, applied by `?`
FileOpen(cause) == [kind |-> "FileOpen", cause |-> cause]

BadVersionIdentifier == [kind |-> "BadVersionIdentifier"]

\* Ok(Self { inner: bf, version })
OkReader(v) == [kind |-> "Ok", version |-> v]

(***************************************************************************)
(* The window and the match.                                               *)
(***************************************************************************)
\* length of the window
WindowLen == 10

\* let mut buf = [0u8; 10]
ZeroWindow == [i \in 1..WindowLen |-> 0]

Min(a, b) == IF a < b THEN a ELSE b

\* faulty variant: the copy is not limited to the length of the window
ReadAmount_unbounded(k) == k

\* BufReader::read into a window shorter than its buffer: of the k bytes the
\* source delivered, as many as the window holds are copied
ReadAmount(k) == Min(WindowLen, k)

\* faulty variant: the whole window is overwritten, with 32 past the bytes read
FillWindow_all(w, bytes, from, n) ==
    [i \in 1..WindowLen |-> IF i <= n THEN bytes[from + i] ELSE 32]

\* the window after a read of n bytes: positions 1..n hold the bytes of the
\* source at the read position, the others keep what they held
FillWindow(w, bytes, from, n) ==
    [i \in 1..WindowLen |-> IF i <= n THEN bytes[from + i] ELSE w[i]]

\* faulty variant: the CR form takes any tenth byte too
Arm_crwild(w, crlf, lf) ==
    \/ \A i \in 1..9 : w[i] = crlf[i]
    \/ \A i \in 1..9 : w[i] = lf[i]

\* one arm of the match: the byte-string literal, or the array pattern whose
\* tenth position is the wildcard `_`
Arm(w, crlf, lf) ==
    \/ w = crlf
    \/ \A i \in 1..9 : w[i] = lf[i]

NoVersion == "NoVersion"

\* faulty variant: a window with the magic and no known version is taken for PDF1_7
MatchVersion_guess(w) ==
    CASE Arm(w, <<37, 80, 68, 70, 45, 49, 46, 48, 13, 10>>, <<37, 80, 68, 70, 45, 49, 46, 48, 10>>) -> "PDF1_0"
      [] Arm(w, <<37, 80, 68, 70, 45, 49, 46, 49, 13, 10>>, <<37, 80, 68, 70, 45, 49, 46, 49, 10>>) -> "PDF1_1"
      [] Arm(w, <<37, 80, 68, 70, 45, 49, 46, 50, 13, 10>>, <<37, 80, 68, 70, 45, 49, 46, 50, 10>>) -> "PDF1_2"
      [] Arm(w, <<37, 80, 68, 70, 45, 49, 46, 51, 13, 10>>, <<37, 80, 68, 70, 45, 49, 46, 51, 10>>) -> "PDF1_3"
      [] Arm(w, <<37, 80, 68, 70, 45, 49, 46, 52, 13, 10>>, <<37, 80, 68, 70, 45, 49, 46, 52, 10>>) -> "PDF1_4"
      [] Arm(w, <<37, 80, 68, 70, 45, 49, 46, 53, 13, 10>>, <<37, 80, 68, 70, 45, 49, 46, 53, 10>>) -> "PDF1_5"
      [] Arm(w, <<37, 80, 68, 70, 45, 49, 46, 54, 13, 10>>, <<37, 80, 68, 70, 45, 49, 46, 54, 10>>) -> "PDF1_6"
      [] Arm(w, <<37, 80, 68, 70, 45, 49, 46, 55, 13, 10>>, <<37, 80, 68, 70, 45, 49, 46, 55, 10>>) -> "PDF1_7"
      [] Arm(w, <<37, 80, 68, 70, 45, 50, 46, 48, 13, 10>>, <<37, 80, 68, 70, 45, 50, 46, 48, 10>>) -> "PDF2_0"
      [] \A i \in 1..5 : w[i] = <<37, 80, 68, 70, 45>>[i] -> "PDF1_7"
      [] OTHER -> NoVersion

\* match &buf { ... }: the nine arms in order, then the catch-all
MatchVersion(w) ==
    CASE Arm(w, <<37, 80, 68, 70, 45, 49, 46, 48, 13, 10>>, <<37, 80, 68, 70, 45, 49, 46, 48, 10>>) -> "PDF1_0"
      [] Arm(w, <<37, 80, 68, 70, 45, 49, 46, 49, 13, 10>>, <<37, 80, 68, 70, 45, 49, 46, 49, 10>>) -> "PDF1_1"
      [] Arm(w, <<37, 80, 68, 70, 45, 49, 46, 50, 13, 10>>, <<37, 80, 68, 70, 45, 49, 46, 50, 10>>) -> "PDF1_2"
      [] Arm(w, <<37, 80, 68, 70, 45, 49, 46, 51, 13, 10>>, <<37, 80, 68, 70, 45, 49, 46, 51, 10>>) -> "PDF1_3"
      [] Arm(w, <<37, 80, 68, 70, 45, 49, 46, 52, 13, 10>>, <<37, 80, 68, 70, 45, 49, 46, 52, 10>>) -> "PDF1_4"
      [] Arm(w, <<37, 80, 68, 70, 45, 49, 46, 53, 13, 10>>, <<37, 80, 68, 70, 45, 49, 46, 53, 10>>) -> "PDF1_5"
      [] Arm(w, <<37, 80, 68, 70, 45, 49, 46, 54, 13, 10>>, <<37, 80, 68, 70, 45, 49, 46, 54, 10>>) -> "PDF1_6"
      [] Arm(w, <<37, 80, 68, 70, 45, 49, 46, 55, 13, 10>>, <<37, 80, 68, 70, 45, 49, 46, 55, 10>>) -> "PDF1_7"
      [] Arm(w, <<37, 80, 68, 70, 45, 50, 46, 48, 13, 10>>, <<37, 80, 68, 70, 45, 50, 46, 48, 10>>) -> "PDF2_0"
      [] OTHER -> NoVersion

(***************************************************************************)
(* The byte sources explored: a magic, a version token, a line ending and  *)
(* body bytes, cut to every length from 0 to MaxSrcLen.                    *)
(***************************************************************************)
\* "%PDF-", "%pdf-", "%PDF ", and the first bytes of a JPEG file
Magics ==
    { <<37, 80, 68, 70, 45>>, <<37, 112, 100, 102, 45>>, <<37, 80, 68, 70, 32>>,
      <<255, 216, 255, 224, 0>> }

\* "1.0" .. "1.8", "2.0", "2.1", "3.0"
VersionTokens ==
    { <<49, 46, d>> : d \in 48..56 } \cup { <<50, 46, 48>>, <<50, 46, 49>>, <<51, 46, 48>> }

\* CR LF; LF and a body byte 0x00, 0x0A, 0x25, 0xFF; CR and 0x00; space and LF
Endings ==
    { <<13, 10>>, <<10, 0>>, <<10, 10>>, <<10, 37>>, <<10, 255>>, <<13, 0>>, <<32, 10>> }

Body == [i \in 1..(MaxSrcLen - WindowLen) |-> 49]

\* every cut of every combination
CutSources ==
    { SubSeq(m \o t \o e \o Body, 1, len) :
        m \in Magics, t \in VersionTokens, e \in Endings, len \in 0..MaxSrcLen }

\* the 10 bytes "%PDF-", a version token, LF and every byte value 0x00..0xFF
WildSources ==
    { <<37, 80, 68, 70, 45>> \o t \o <<10, b>> : t \in VersionTokens, b \in 0..255 }

Sources == CutSources \cup WildSources

NoCmp == [state |-> "idle"]

(***************************************************************************)
(* Construction.                                                           *)
(***************************************************************************)
Init ==
    /\ src \in Sources
    /\ openable \in BOOLEAN
    /\ pc = "start"
    /\ buf = ZeroWindow
    /\ nread = -1
    /\ pos = 0
    /\ reads = 0
    /\ reqmax = 0
    /\ seeks = 0
    /\ matches = 0
    /\ result = NoResult
    /\ attempt = 1
    /\ prev = NoResult
    /\ cmp = NoCmp

\* from_file_path: File::open(path) succeeded; from_bufreader is entered
\* with a fresh BufReader and allocates its window
OpenOk ==
    /\ pc = "start"
    /\ openable
    /\ pc' = "read"
    /\ buf' = ZeroWindow
    /\ UNCHANGED <<src, openable, nread, pos, reads, reqmax, seeks, matches, result, attempt, prev, cmp>>

\* faulty variant: a failed open is reported as a bad version identifier
OpenErr_bad ==
    /\ pc = "start"
    /\ ~openable
    /\ result' = BadVersionIdentifier
    /\ pc' = "done"
    /\ UNCHANGED <<src, openable, buf, nread, pos, reads, reqmax, seeks, matches, attempt, prev, cmp>>

\* from_file_path: File::open(path)? failed; the error is converted and
\* returned, from_bufreader is never entered
OpenErr ==
    /\ pc = "start"
    /\ ~openable
    /\ result' = FileOpen("open")
    /\ pc' = "done"
    /\ UNCHANGED <<src, openable, buf, nread, pos, reads, reqmax, seeks, matches, attempt, prev, cmp>>

\* faulty variant: a short read is followed by further reads until the window is
\* full or the source is at its end
ReadOk_retry ==
    /\ pc = "read"
    /\ \E k \in (IF pos = Len(src) THEN 0 ELSE 1)..(Len(src) - pos) :
         LET n == Min(WindowLen - pos, k) IN
           /\ buf' = [i \in 1..WindowLen |->
                        IF i > pos /\ i <= pos + n THEN src[i] ELSE buf[i]]
           /\ nread' = pos + n
           /\ pos' = pos + n
           /\ pc' = IF n = 0 \/ pos + n = WindowLen THEN "match" ELSE "read"
    /\ reads' = reads + 1
    /\ reqmax' = IF WindowLen > reqmax THEN WindowLen ELSE reqmax
    /\ UNCHANGED <<src, openable, seeks, matches, result, attempt, prev, cmp>>

\* bf.read(&mut buf) returned Ok(n): the source delivered k of its remaining
\* bytes (any number from 1 on, a short read included; 0 only at its end) and
\* n of them were copied into the window; n is discarded
ReadOk ==
    /\ pc = "read"
    /\ \E k \in (IF pos = Len(src) THEN 0 ELSE 1)..(Len(src) - pos) :
         LET n == ReadAmount(k) IN
           IF n <= WindowLen
             THEN /\ buf' = FillWindow(buf, src, pos, n)
                  /\ nread' = n
                  /\ pos' = pos + n
                  /\ pc' = "match"
             ELSE /\ pc' = "abort"
                  /\ UNCHANGED <<buf, nread, pos>>
    /\ reads' = reads + 1
    /\ reqmax' = IF WindowLen > reqmax THEN WindowLen ELSE reqmax
    /\ UNCHANGED <<src, openable, seeks, matches, result, attempt, prev, cmp>>

\* faulty variant: the error of the read is dropped and the window is matched
ReadErr_ignored ==
    /\ pc = "read"
    /\ nread' = -2
    /\ reads' = reads + 1
    /\ reqmax' = IF WindowLen > reqmax THEN WindowLen ELSE reqmax
    /\ pc' = "match"
    /\ UNCHANGED <<src, openable, buf, pos, seeks, matches, result, attempt, prev, cmp>>

\* bf.read(&mut buf)? returned Err(e): nothing was copied, the error is
\* converted and returned
ReadErr ==
    /\ pc = "read"
    /\ nread' = -2
    /\ reads' = reads + 1
    /\ reqmax' = IF WindowLen > reqmax THEN WindowLen ELSE reqmax
    /\ result' = FileOpen("read")
    /\ pc' = "done"
    /\ UNCHANGED <<src, openable, buf, pos, seeks, matches, attempt, prev, cmp>>

\* the match on the window, `?` on its value, and Ok(Self { .. })
Match ==
    /\ pc = "match"
    /\ LET v == MatchVersion(buf) IN
         result' = IF v = NoVersion THEN BadVersionIdentifier ELSE OkReader(v)
    /\ matches' = matches + 1
    /\ pc' = "done"
    /\ UNCHANGED <<src, openable, buf, nread, pos, reads, reqmax, seeks, attempt, prev, cmp>>

\* a caller constructs once more, from another source that carries the same
\* bytes; whether it opens and what its read returns are drawn afresh
Again ==
    /\ pc = "done"
    /\ attempt < MaxConstructions
    /\ attempt' = attempt + 1
    /\ prev' = result
    /\ openable' \in BOOLEAN
    /\ pc' = "start"
    /\ buf' = ZeroWindow
    /\ nread' = -1
    /\ pos' = 0
    /\ reads' = 0
    /\ reqmax' = 0
    /\ seeks' = 0
    /\ matches' = 0
    /\ result' = NoResult
    /\ UNCHANGED <<src, cmp>>

Next == OpenOk \/ OpenErr \/ ReadOk \/ ReadErr \/ Match \/ Again

Spec == Init /\ [][Next]_vars

\* every step of a construction is taken once it can be: the constructor is
\* straight-line synchronous code
LiveSpec == Init /\ [][Next]_vars /\ WF_vars(Next)

(***************************************************************************)
(* Comparing version tags: a consumer draws three tags and compares them   *)
(* with the derived ordering.                                              *)
(***************************************************************************)
InitCmp ==
    /\ src = << >>
    /\ openable = FALSE
    /\ pc = "idle"
    /\ buf = ZeroWindow
    /\ nread = -1
    /\ pos = 0
    /\ reads = 0
    /\ reqmax = 0
    /\ seeks = 0
    /\ matches = 0
    /\ result = NoResult
    /\ attempt = 1
    /\ prev = NoResult
    /\ cmp \in [state : {"operands"}, a : PDFVersion, b : PDFVersion, c : PDFVersion]

\* a < b, b < a, b < c and a < c by the derived ordering
Compare ==
    /\ cmp.state = "operands"
    /\ cmp' = [state |-> "compared", a |-> cmp.a, b |-> cmp.b, c |-> cmp.c,
               ab |-> Lt(cmp.a, cmp.b), ba |-> Lt(cmp.b, cmp.a),
               bc |-> Lt(cmp.b, cmp.c), ac |-> Lt(cmp.a, cmp.c)]
    /\ UNCHANGED <<src, openable, pc, buf, nread, pos, reads, reqmax, seeks, matches, result, attempt, prev>>

NextCmp == Compare

SpecCmp == InitCmp /\ [][NextCmp]_vars

(***************************************************************************)
(* Vocabulary of the properties.                                           *)
(***************************************************************************)
\* the bytes '%PDF-<major>.<minor>' of a version, <major>.<minor> as rendered
Signature(v) == <<37, 80, 68, 70, 45>> \o Display(v)

\* s begins with the signature of v followed by CR LF
BeginsCRLF(s, v) == Len(s) >= 10 /\ SubSeq(s, 1, 10) = Signature(v) \o <<13, 10>>

\* s begins with the signature of v followed by LF and one more byte
BeginsLF(s, v) == Len(s) >= 10 /\ SubSeq(s, 1, 9) = Signature(v) \o <<10>>

\* the window is one of the two accepted patterns of v
AcceptedWindow(w, v) ==
    \/ SubSeq(w, 1, 10) = Signature(v) \o <<13, 10>>
    \/ SubSeq(w, 1, 9) = Signature(v) \o <<10>>

\* the year-free chronology of a version: 10 * major + minor
Chronology(v) == (Display(v)[1] - 48) * 10 + (Display(v)[3] - 48)

\* the chain of the ordering as documented
DocumentedChain ==
    <<"PDF1_0", "PDF1_1", "PDF1_2", "PDF1_3", "PDF1_4",
      "PDF1_5", "PDF1_6", "PDF1_7", "PDF2_0">>

ChainIndex(v) == CHOOSE i \in DOMAIN DocumentedChain : DocumentedChain[i] = v

ResultKinds == {"Ok", "FileOpen", "BadVersionIdentifier"}

(***************************************************************************)
(* Properties.                                                             *)
(***************************************************************************)

\* C1: a construction whose read did not fail, from a source that begins with
\* '%PDF-<major>.<minor>' of a recognized version followed by CR LF, or by LF
\* and any tenth byte, succeeds with exactly that version.
C1_AcceptedSourceSucceeds ==
    \A v \in PDFVersion :
        (pc = "done" /\ nread >= 0 /\ (BeginsCRLF(src, v) \/ BeginsLF(src, v)))
            => result = OkReader(v)

\* C2: when the window the match sees is none of the eighteen accepted
\* patterns, no reader is constructed and BadVersionIdentifier is returned.
C2_UnacceptedWindowRejected ==
    (pc = "done" /\ matches > 0 /\ ~ \E v \in PDFVersion : AcceptedWindow(buf, v))
        => result = BadVersionIdentifier

\* C2 witness: the window '%PDF-3.0' CR LF was matched and rejected
C2_Witness ==
    /\ pc = "done"
    /\ buf = <<37, 80, 68, 70, 45, 51, 46, 48, 13, 10>>
    /\ result = BadVersionIdentifier

\* C3: every construction that starts completes, with a reader or one of the
\* two typed errors, and no step aborts or leaves the 10-byte window.
C3_CompletesWithTypedResult ==
    /\ (pc = "start") ~> (pc = "done" /\ result.kind \in ResultKinds)
    /\ [](pc # "abort" /\ nread <= WindowLen /\ DOMAIN buf = 1..WindowLen)

\* C3 witness: a source longer than the window was read in full and the
\* construction completed
C3_Witness ==
    /\ pc = "done"
    /\ Len(src) > WindowLen
    /\ nread = WindowLen
    /\ result.kind \in ResultKinds

\* C4: a reader with version V exists only if the bytes actually read from
\* the source begin with '%PDF-<V>' followed by LF or by CR LF, whatever the
\* number of bytes the read returned.
C4_ReaderOnlyOnRealSignature ==
    (pc = "done" /\ result.kind = "Ok") =>
        /\ nread >= 9
        /\ Len(src) >= nread
        /\ SubSeq(src, 1, 8) = Signature(result.version)
        /\ \/ src[9] = 10
           \/ nread = 10 /\ src[9] = 13 /\ src[10] = 10

\* C4 witness: a reader built after a short read of 9 bytes
C4_Witness ==
    /\ pc = "done"
    /\ result.kind = "Ok"
    /\ nread = 9
    /\ Len(src) > 9

\* C5: two constructions from independent sources carrying the same bytes,
\* neither of which met an I/O error, end in the same outcome.
C5_SameBytesSameOutcome ==
    (pc = "done" /\ attempt >= 2 /\ result.kind # "FileOpen" /\ prev.kind # "FileOpen")
        => result = prev

\* C6: when the path cannot be opened the constructor returns FileOpen
\* wrapping the error of the open, never BadVersionIdentifier, and neither
\* reads nor matches.
C6_OpenFailureIsFileOpen ==
    (pc = "done" /\ ~openable) =>
        /\ result = FileOpen("open")
        /\ reads = 0
        /\ matches = 0
        /\ buf = ZeroWindow

\* C6 witness: a second construction whose open failed after one that opened
C6_Witness ==
    /\ pc = "done"
    /\ ~openable
    /\ attempt = 2
    /\ prev.kind = "Ok"
    /\ result.kind = "FileOpen"

\* C7: the comparison is a strict total order on the nine variants and agrees
\* with the chronology of the versions and with the documented chain.
C7_StrictTotalChronologicalOrder ==
    cmp.state = "compared" =>
        /\ cmp.a = cmp.b => ~cmp.ab
        /\ (cmp.ab /\ cmp.bc) => cmp.ac
        /\ cmp.a # cmp.b => (cmp.ab \/ cmp.ba)
        /\ ~(cmp.ab /\ cmp.ba)
        /\ cmp.ab <=> Chronology(cmp.a) < Chronology(cmp.b)
        /\ cmp.ab <=> ChainIndex(cmp.a) < ChainIndex(cmp.b)

\* C7 witness: PDF1_0 < PDF1_4 < PDF2_0 was computed
C7_Witness ==
    /\ cmp.state = "compared"
    /\ cmp.a = "PDF1_0" /\ cmp.b = "PDF1_4" /\ cmp.c = "PDF2_0"
    /\ cmp.ab /\ cmp.bc /\ cmp.ac

C9_OneReadNoSeek ==
    /\ reads <= 1
    /\ seeks = 0
    /\ reqmax <= WindowLen
    /\ (pc \in {"match", "done"} /\ openable) => reads = 1
    /\ (pc = "done" /\ result.kind = "Ok" /\ nread = WindowLen) => pos = 10

\* C9 witness: a reader of the LF form, positioned past the first body byte
C9_Witness ==
    /\ pc = "done"
    /\ result.kind = "Ok"
    /\ src[9] = 10
    /\ nread = WindowLen
    /\ pos = 10
    /\ reads = 1

\* C10: when the read fails, FileOpen wrapping the error of the read is
\* returned and the window is never matched; BadVersionIdentifier is returned
\* only after a read that returned successfully.
C10_ReadErrorIsFileOpen ==
    /\ (pc = "done" /\ nread = -2) => (result = FileOpen("read") /\ matches = 0)
    /\ (pc = "done" /\ result = BadVersionIdentifier) => nread >= 0

\* C10 witness: the read of a source carrying a valid header failed
C10_Witness ==
    /\ pc = "done"
    /\ nread = -2
    /\ BeginsCRLF(src, "PDF1_7")
    /\ result = FileOpen("read")

====
